---- MODULE Spec2Model ----
(***************************************************************************)
(* Model of flash_all.py: the ESP32-Doom flashing script.                  *)
(*                                                                         *)
(* One run of the script is a sequential process.  Its inputs are the      *)
(* command line (argv), the process environment (environ, a dict), the     *)
(* set of files that exist (fs) and the behaviour of the external tool.    *)
(* Text printed on stdout/stderr is kept as sequences of records, one per  *)
(* print call, carrying the values interpolated into the message.          *)
(***************************************************************************)
EXTENDS Integers, Sequences, FiniteSets

VARIABLES
    argv,           \* sys.argv[1:]
    environ,        \* os.environ: a function whose DOMAIN is the set of set variables
    fs,             \* the paths for which os.path.exists is true
    pc,             \* position of the run
    args,           \* result of parser.parse_args(): [port |-> <<>> (None) or <<value>>]
    espport, espbaud, espflashmode, espflashfreq, espflashsize,   \* locals of flash_all
    idx,            \* position of the for loop over required_files
    checked,        \* the paths os.path.exists was called with, in call order
    cmd,            \* local cmd of flash_all
    invocations,    \* the argument lists subprocess.run was called with
    tool,           \* the external process: state, returncode, stdout, stderr
    success,        \* <<>> until flash_all returned, then <<return value>>
    out,            \* lines printed on stdout
    err,            \* what the runtime wrote on stderr
    exitCode        \* <<>> while the process runs, then <<status>>

vars == <<argv, environ, fs, pc, args, espport, espbaud, espflashmode,
          espflashfreq, espflashsize, idx, checked, cmd, invocations, tool,
          success, out, err, exitCode>>

-----------------------------------------------------------------------------
(* Bounds and input sets *)

\* external tool exit statuses range over 0..MaxStatus
MaxStatus == 2

StatusSet == 0..MaxStatus

\* texts the external tool may write on its stdout / stderr
ToolTexts == {"", "A fatal error occurred"}

PortValues == {"", "/dev/ttyUSB0", "/dev/ttyUSB1"}

EnvValues(name) ==
    CASE name = "ESPPORT"      -> PortValues
      [] name = "ESPBAUD"      -> {"", "921600"}
      [] name = "ESPFLASHMODE" -> {"", "qio"}
      [] name = "ESPFLASHFREQ" -> {"", "80m"}
      [] name = "ESPFLASHSIZE" -> {"", "16MB"}

EnvNames == {"ESPPORT", "ESPBAUD", "ESPFLASHMODE", "ESPFLASHFREQ", "ESPFLASHSIZE"}

\* every environment: any subset of the variables set, each to one of its values
Environments ==
    UNION { { f \in [D -> UNION {EnvValues(n) : n \in D}] :
                \A n \in D : f[n] \in EnvValues(n) } : D \in SUBSET EnvNames }

\* command lines: no flag, --port/-p with a value, a flag without its value, --help
ArgvSet ==
    {<<>>, <<"--port">>, <<"--help">>}
      \cup {<<"--port", v>> : v \in PortValues}
      \cup {<<"-p", v>> : v \in PortValues \ {""}}

-----------------------------------------------------------------------------
(* Constants of the script *)

bootloader_bin      == "build/bootloader/bootloader.bin"
partition_table_bin == "build/partition_table/partition-table.bin"
app_bin             == "build/esp32-doom.bin"
storage_bin         == "build/storage.bin"
wad_bin             == "build/wad_partition.bin"

required_files_flash_order ==
    << [file_path |-> bootloader_bin,      description |-> "Bootloader"],
       [file_path |-> partition_table_bin, description |-> "Partition table"],
       [file_path |-> app_bin,             description |-> "Application"],
       [file_path |-> wad_bin,             description |-> "WAD file"],
       [file_path |-> storage_bin,         description |-> "SPIFFS storage"] >>

required_files ==
    << [file_path |-> bootloader_bin,      description |-> "Bootloader"],
       [file_path |-> partition_table_bin, description |-> "Partition table"],
       [file_path |-> app_bin,             description |-> "Application"],
       [file_path |-> storage_bin,         description |-> "SPIFFS storage"],
       [file_path |-> wad_bin,             description |-> "WAD file"] >>

AllPaths == {required_files[i].file_path : i \in DOMAIN required_files}

-----------------------------------------------------------------------------
(* Helpers *)

\* os.environ.get(name, default)
environ_get(name, default) ==
    IF name \in DOMAIN environ THEN environ[name] ELSE default

\* os.environ[name] = value
environ_set(name, value) ==
    [n \in (DOMAIN environ) \cup {name} |-> IF n = name THEN value ELSE environ[n]]

\* truth value of args.port: None and '' are both false
Truthy(opt) == opt # <<>> /\ opt[1] # ""

\* argparse with the single option --port/-p
parse_args(a) ==
    IF a = <<>> THEN [status |-> "ok", port |-> <<>>]
    ELSE IF a[1] \in {"--port", "-p"}
         THEN IF Len(a) = 2 THEN [status |-> "ok", port |-> <<a[2]>>]
                            ELSE [status |-> "usage", port |-> <<>>]
         ELSE IF a[1] \in {"--help", "-h"}
              THEN [status |-> "help", port |-> <<>>]
              ELSE [status |-> "usage", port |-> <<>>]


TypeOK ==
    /\ argv \in ArgvSet
    /\ environ \in Environments
    /\ fs \subseteq AllPaths
    /\ pc \in {"parse_args", "override", "read_config", "check_port", "check_files",
               "build_cmd", "run_command", "waiting", "tool_done", "raised",
               "report", "exited"}
    /\ idx \in 1..(Len(required_files) + 1)
    /\ Len(invocations) <= 1
    /\ tool.state \in {"none", "running", "exited", "not_started"}

-----------------------------------------------------------------------------
(* Initial state: the process has started, nothing has run yet *)

Init ==
    /\ argv \in ArgvSet
    /\ environ \in Environments
    /\ fs \in SUBSET AllPaths
    /\ pc = "parse_args"
    /\ args = [port |-> <<>>]
    /\ espport = "" /\ espbaud = "" /\ espflashmode = ""
    /\ espflashfreq = "" /\ espflashsize = ""
    /\ idx = 1
    /\ checked = <<>>
    /\ cmd = <<>>
    /\ invocations = <<>>
    /\ tool = [state |-> "none", returncode |-> 0, stdout |-> "", stderr |-> ""]
    /\ success = <<>>
    /\ out = <<>>
    /\ err = <<>>
    /\ exitCode = <<>>

-----------------------------------------------------------------------------
(* main, lines 82-85: build the parser and parse the command line.  argparse *)
(* itself ends the process on --help (status 0) and on a usage error (2).    *)
ParseArgs ==
    /\ pc = "parse_args"
    /\ LET r == parse_args(argv) IN
         \/ /\ r.status = "ok"
            /\ args' = [port |-> r.port]
            /\ pc' = "override"
            /\ UNCHANGED <<err, exitCode>>
         \/ /\ r.status = "help"
            /\ err' = Append(err, [kind |-> "argparse_help"])
            /\ exitCode' = <<0>>
            /\ pc' = "exited"
            /\ UNCHANGED args
         \/ /\ r.status = "usage"
            /\ err' = Append(err, [kind |-> "argparse_usage"])
            /\ exitCode' = <<2>>
            /\ pc' = "exited"
            /\ UNCHANGED args
    /\ UNCHANGED <<argv, environ, fs, espport, espbaud, espflashmode, espflashfreq,
                   espflashsize, idx, checked, cmd, invocations, tool, success, out>>

(* main, lines 87-94: write a given port into the environment, print the *)
(* banner, call flash_all.                                                *)
OverridePort ==
    /\ pc = "override"
    /\ environ' = IF Truthy(args.port) THEN environ_set("ESPPORT", args.port[1])
                                       ELSE environ
    /\ out' = out \o <<[kind |-> "banner"], [kind |-> "banner_rule"]>>
    /\ pc' = "read_config"
    /\ UNCHANGED <<argv, fs, args, espport, espbaud, espflashmode, espflashfreq,
                   espflashsize, idx, checked, cmd, invocations, tool, success,
                   err, exitCode>>

ReadConfig_wrong_default ==
    /\ pc = "read_config"
    /\ espport'      = environ_get("ESPPORT", "")
    /\ espbaud'      = environ_get("ESPBAUD", "115200")
    /\ espflashmode' = environ_get("ESPFLASHMODE", "dio")
    /\ espflashfreq' = environ_get("ESPFLASHFREQ", "40m")
    /\ espflashsize' = environ_get("ESPFLASHSIZE", "2MB")
    /\ pc' = "check_port"
    /\ UNCHANGED <<argv, environ, fs, args, idx, checked, cmd, invocations, tool,
                   success, out, err, exitCode>>

(* flash_all, lines 29-33 *)
ReadConfig ==
    /\ pc = "read_config"
    /\ espport'      = environ_get("ESPPORT", "")
    /\ espbaud'      = environ_get("ESPBAUD", "115200")
    /\ espflashmode' = environ_get("ESPFLASHMODE", "dio")
    /\ espflashfreq' = environ_get("ESPFLASHFREQ", "40m")
    /\ espflashsize' = environ_get("ESPFLASHSIZE", "4MB")
    /\ pc' = "check_port"
    /\ UNCHANGED <<argv, environ, fs, args, idx, checked, cmd, invocations, tool,
                   success, out, err, exitCode>>

CheckPort_no_return ==
    /\ pc = "check_port"
    /\ IF espport = ""
       THEN out' = out \o <<[kind |-> "espport_not_set"],
                            [kind |-> "please_set_espport"],
                            [kind |-> "export_espport_hint"]>>
       ELSE out' = out
    /\ pc' = "check_files"
    /\ UNCHANGED <<argv, environ, fs, args, espport, espbaud, espflashmode,
                   espflashfreq, espflashsize, idx, checked, cmd, invocations, tool,
                   success, err, exitCode>>

(* flash_all, lines 35-39 *)
CheckPort ==
    /\ pc = "check_port"
    /\ IF espport = ""
       THEN /\ out' = out \o <<[kind |-> "espport_not_set"],
                               [kind |-> "please_set_espport"],
                               [kind |-> "export_espport_hint"]>>
            /\ success' = <<FALSE>>
            /\ pc' = "report"
       ELSE /\ pc' = "check_files"
            /\ UNCHANGED <<out, success>>
    /\ UNCHANGED <<argv, environ, fs, args, espport, espbaud, espflashmode,
                   espflashfreq, espflashsize, idx, checked, cmd, invocations, tool,
                   err, exitCode>>

CheckFile_no_return ==
    /\ pc = "check_files"
    /\ LET f == required_files[idx] IN
         /\ checked' = Append(checked, f.file_path)
         /\ out' = IF f.file_path \notin fs
                   THEN out \o <<[kind |-> "file_not_found",
                                  description |-> f.description,
                                  file_path |-> f.file_path],
                                 [kind |-> "run_build_first"]>>
                   ELSE out
         /\ idx' = idx + 1
         /\ pc' = IF idx = Len(required_files) THEN "build_cmd" ELSE "check_files"
    /\ UNCHANGED <<argv, environ, fs, args, espport, espbaud, espflashmode,
                   espflashfreq, espflashsize, cmd, invocations, tool, success,
                   err, exitCode>>

(* flash_all, lines 56-60: one iteration of the loop over required_files *)
CheckFile ==
    /\ pc = "check_files"
    /\ LET f == required_files[idx] IN
         /\ checked' = Append(checked, f.file_path)
         /\ IF f.file_path \notin fs
            THEN /\ out' = out \o <<[kind |-> "file_not_found",
                                     description |-> f.description,
                                     file_path |-> f.file_path],
                                    [kind |-> "run_build_first"]>>
                 /\ success' = <<FALSE>>
                 /\ pc' = "report"
                 /\ UNCHANGED idx
            ELSE /\ idx' = idx + 1
                 /\ pc' = IF idx = Len(required_files) THEN "build_cmd"
                                                       ELSE "check_files"
                 /\ UNCHANGED <<out, success>>
    /\ UNCHANGED <<argv, environ, fs, args, espport, espbaud, espflashmode,
                   espflashfreq, espflashsize, cmd, invocations, tool, err, exitCode>>

BuildCmd_list_order ==
    /\ pc = "build_cmd"
    /\ cmd' = << "esptool.py",
                 "--chip", "esp32",
                 "--port", espport,
                 "--baud", espbaud,
                 "write_flash",
                 "--flash_mode", espflashmode,
                 "--flash_freq", espflashfreq,
                 "--flash_size", espflashsize,
                 "0x1000", bootloader_bin,
                 "0x8000", partition_table_bin,
                 "0x10000", app_bin,
                 "0x188000", storage_bin,
                 "0x388000", wad_bin >>
    /\ pc' = "run_command"
    /\ UNCHANGED <<argv, environ, fs, args, espport, espbaud, espflashmode,
                   espflashfreq, espflashsize, idx, checked, invocations, tool,
                   success, out, err, exitCode>>

(* flash_all, lines 63-77 *)
BuildCmd ==
    /\ pc = "build_cmd"
    /\ cmd' = << "esptool.py",
                 "--chip", "esp32",
                 "--port", espport,
                 "--baud", espbaud,
                 "write_flash",
                 "--flash_mode", espflashmode,
                 "--flash_freq", espflashfreq,
                 "--flash_size", espflashsize,
                 "0x1000", bootloader_bin,
                 "0x8000", partition_table_bin,
                 "0x10000", app_bin,
                 "0x188000", wad_bin,
                 "0x388000", storage_bin >>
    /\ pc' = "run_command"
    /\ UNCHANGED <<argv, environ, fs, args, espport, espbaud, espflashmode,
                   espflashfreq, espflashsize, idx, checked, invocations, tool,
                   success, out, err, exitCode>>

(* flash_all line 79 and run_command, lines 12-16: print the description and *)
(* the command, then call subprocess.run.  The call either starts the        *)
(* process or raises OSError (executable not found, not executable).         *)
RunCommandStart ==
    /\ pc = "run_command"
    /\ out' = out \o <<[kind |-> "description", description |-> "Flashing all partitions"],
                       [kind |-> "command", cmd |-> cmd]>>
    /\ invocations' = Append(invocations, cmd)
    /\ \/ /\ tool' = [tool EXCEPT !.state = "running"]
          /\ pc' = "waiting"
       \/ /\ tool' = [tool EXCEPT !.state = "not_started"]
          /\ pc' = "raised"
    /\ UNCHANGED <<argv, environ, fs, args, espport, espbaud, espflashmode,
                   espflashfreq, espflashsize, idx, checked, cmd, success,
                   err, exitCode>>

(* run_command, line 16: subprocess.run blocks until the process has exited; *)
(* its output is captured.  The process may also never exit.                 *)
ToolExit ==
    /\ pc = "waiting"
    /\ \E rc \in StatusSet, so \in ToolTexts, se \in ToolTexts :
         tool' = [state |-> "exited", returncode |-> rc, stdout |-> so, stderr |-> se]
    /\ pc' = "tool_done"
    /\ UNCHANGED <<argv, environ, fs, args, espport, espbaud, espflashmode,
                   espflashfreq, espflashsize, idx, checked, cmd, invocations,
                   success, out, err, exitCode>>

RunCommandResult_retry ==
    /\ pc = "tool_done"
    /\ IF tool.returncode = 0
       THEN /\ out' = Append(out, [kind |-> "completed",
                                   description |-> "Flashing all partitions"])
            /\ success' = <<TRUE>>
            /\ pc' = "report"
       ELSE /\ out' = out \o <<[kind |-> "error_during",
                                description |-> "Flashing all partitions",
                                cmd |-> invocations[Len(invocations)],
                                returncode |-> tool.returncode],
                               [kind |-> "stdout", text |-> tool.stdout],
                               [kind |-> "stderr", text |-> tool.stderr]>>
            /\ IF Len(invocations) < 2
               THEN pc' = "run_command" /\ UNCHANGED success
               ELSE pc' = "report" /\ success' = <<FALSE>>
    /\ UNCHANGED <<argv, environ, fs, args, espport, espbaud, espflashmode,
                   espflashfreq, espflashsize, idx, checked, cmd, invocations, tool,
                   err, exitCode>>

RunCommandResult_no_stderr ==
    /\ pc = "tool_done"
    /\ IF tool.returncode = 0
       THEN /\ out' = Append(out, [kind |-> "completed",
                                   description |-> "Flashing all partitions"])
            /\ success' = <<TRUE>>
       ELSE /\ out' = out \o <<[kind |-> "error_during",
                                description |-> "Flashing all partitions",
                                cmd |-> invocations[Len(invocations)],
                                returncode |-> tool.returncode],
                               [kind |-> "stdout", text |-> tool.stdout],
                               [kind |-> "stderr", text |-> tool.stdout]>>
            /\ success' = <<FALSE>>
    /\ pc' = "report"
    /\ UNCHANGED <<argv, environ, fs, args, espport, espbaud, espflashmode,
                   espflashfreq, espflashsize, idx, checked, cmd, invocations, tool,
                   err, exitCode>>

(* run_command, lines 16-23 (check=True): status zero returns True; any     *)
(* other status raises CalledProcessError, whose text names the command and *)
(* the status; it is caught, printed with the captured stdout and stderr,   *)
(* and run_command returns False.  flash_all returns that value (line 79).  *)
RunCommandResult ==
    /\ pc = "tool_done"
    /\ IF tool.returncode = 0
       THEN /\ out' = Append(out, [kind |-> "completed",
                                   description |-> "Flashing all partitions"])
            /\ success' = <<TRUE>>
       ELSE /\ out' = out \o <<[kind |-> "error_during",
                                description |-> "Flashing all partitions",
                                cmd |-> invocations[Len(invocations)],
                                returncode |-> tool.returncode],
                               [kind |-> "stdout", text |-> tool.stdout],
                               [kind |-> "stderr", text |-> tool.stderr]>>
            /\ success' = <<FALSE>>
    /\ pc' = "report"
    /\ UNCHANGED <<argv, environ, fs, args, espport, espbaud, espflashmode,
                   espflashfreq, espflashsize, idx, checked, cmd, invocations, tool,
                   err, exitCode>>

(* An OSError raised by subprocess.run is not a CalledProcessError: the     *)
(* handler at line 19 does not match, nothing in flash_all or main catches  *)
(* it, and the interpreter writes the traceback and exits with status 1.    *)
UncaughtException ==
    /\ pc = "raised"
    /\ err' = Append(err, [kind |-> "traceback"])
    /\ exitCode' = <<1>>
    /\ pc' = "exited"
    /\ UNCHANGED <<argv, environ, fs, args, espport, espbaud, espflashmode,
                   espflashfreq, espflashsize, idx, checked, cmd, invocations, tool,
                   success, out>>

Report_no_exit ==
    /\ pc = "report"
    /\ IF success[1]
       THEN out' = out \o <<[kind |-> "all_flashed"], [kind |-> "should_boot_with"],
                            [kind |-> "payload_application"], [kind |-> "payload_wad"],
                            [kind |-> "payload_index_html"]>>
       ELSE out' = Append(out, [kind |-> "flashing_failed"])
    /\ exitCode' = <<0>>
    /\ pc' = "exited"
    /\ UNCHANGED <<argv, environ, fs, args, espport, espbaud, espflashmode,
                   espflashfreq, espflashsize, idx, checked, cmd, invocations, tool,
                   success, err>>

(* main, lines 96-104, and the return from main at line 107 *)
Report ==
    /\ pc = "report"
    /\ IF success[1]
       THEN /\ out' = out \o <<[kind |-> "all_flashed"], [kind |-> "should_boot_with"],
                               [kind |-> "payload_application"], [kind |-> "payload_wad"],
                               [kind |-> "payload_index_html"]>>
            /\ exitCode' = <<0>>
       ELSE /\ out' = Append(out, [kind |-> "flashing_failed"])
            /\ exitCode' = <<1>>
    /\ pc' = "exited"
    /\ UNCHANGED <<argv, environ, fs, args, espport, espbaud, espflashmode,
                   espflashfreq, espflashsize, idx, checked, cmd, invocations, tool,
                   success, err>>

Next ==
    \/ ParseArgs
    \/ OverridePort
    \/ ReadConfig
    \/ CheckPort
    \/ CheckFile
    \/ BuildCmd
    \/ RunCommandStart
    \/ ToolExit
    \/ RunCommandResult
    \/ UncaughtException
    \/ Report

Spec == Init /\ [][Next]_vars

-----------------------------------------------------------------------------
(* Vocabulary of the properties *)

MissingFiles == AllPaths \ fs

\* positions of the stdout lines of one kind
Lines(kind) == {i \in DOMAIN out : out[i].kind = kind}

\* the command line was accepted by the argument parser
Parsed == parse_args(argv).status = "ok"

\* the value given with --port / -p, as a sequence of at most one element
CliPort == IF Len(argv) = 2 THEN <<argv[2]>> ELSE <<>>

\* the element of cmd that follows the given flag or offset
ArgAfter(flag) == cmd[(CHOOSE i \in DOMAIN cmd : cmd[i] = flag) + 1]

Positions(x) == {i \in DOMAIN cmd : cmd[i] = x}

\* the run has printed the success confirmation / the failure message
SuccessReported == Lines("all_flashed") # {}
FailureReported == Lines("flashing_failed") # {}

-----------------------------------------------------------------------------
(* C1: the external tool is invoked only if all five artifact files exist;  *)
(* whenever some artifact is missing, flash_all never builds or runs the    *)
(* command and the value it returns, if it returns, is failure.             *)
C1_NoFlashUnlessAllArtifactsExist ==
    MissingFiles # {} =>
        /\ invocations = <<>>
        /\ tool.state = "none"
        /\ cmd = <<>>
        /\ pc \notin {"build_cmd", "run_command", "waiting", "tool_done", "raised"}
        /\ success \in {<<>>, <<FALSE>>}

C1_Witness ==
    /\ pc = "exited"
    /\ checked # <<>>
    /\ checked[Len(checked)] \in MissingFiles
    /\ success = <<FALSE>>
    /\ invocations = <<>>

(* C2: with ESPPORT unset and no --port flag the run fails with the         *)
(* configuration error, checks no artifact, never invokes the tool, and     *)
(* exits with status 1.                                                     *)
C2_MissingPortFailsEarly ==
    (argv = <<>> /\ "ESPPORT" \notin DOMAIN environ) =>
        /\ checked = <<>>
        /\ invocations = <<>>
        /\ cmd = <<>>
        /\ tool.state = "none"
        /\ pc \in {"parse_args", "override", "read_config", "check_port",
                   "report", "exited"}
        /\ (pc \in {"report", "exited"} =>
               success = <<FALSE>> /\ Lines("espport_not_set") # {})
        /\ (pc = "exited" => exitCode = <<1>>)

C2_Witness ==
    /\ argv = <<>>
    /\ "ESPPORT" \notin DOMAIN environ
    /\ pc = "exited"
    /\ exitCode = <<1>>
    /\ Lines("espport_not_set") # {}

(* C3: with all artifacts present and a valid port the command is built,    *)
(* and it holds the offsets 0x1000, 0x8000, 0x10000, 0x188000, 0x388000 in  *)
(* this order, each once and each immediately followed by its file:         *)
(* bootloader, partition table, application, WAD, storage; each file occurs *)
(* once; the command handed to the tool is this command.                    *)
FlashLayout ==
    << <<"0x1000",   "build/bootloader/bootloader.bin">>,
       <<"0x8000",   "build/partition_table/partition-table.bin">>,
       <<"0x10000",  "build/esp32-doom.bin">>,
       <<"0x188000", "build/wad_partition.bin">>,
       <<"0x388000", "build/storage.bin">> >>

LayoutInCmd ==
    /\ \A k \in DOMAIN FlashLayout :
         /\ Cardinality(Positions(FlashLayout[k][1])) = 1
         /\ Cardinality(Positions(FlashLayout[k][2])) = 1
         /\ ArgAfter(FlashLayout[k][1]) = FlashLayout[k][2]
    /\ \A j, k \in DOMAIN FlashLayout :
         j < k => \A a \in Positions(FlashLayout[j][1]), b \in Positions(FlashLayout[k][1]) :
                    a < b

C3_CommandLayout ==
    /\ (cmd # <<>> => LayoutInCmd)
    /\ (invocations # <<>> => invocations = <<cmd>> /\ LayoutInCmd)
    /\ (MissingFiles = {} /\ espport # "" /\ pc \in {"report", "exited"}) => cmd # <<>>

C3_Witness ==
    /\ MissingFiles = {}
    /\ espport # ""
    /\ invocations = <<cmd>>
    /\ Len(cmd) = 24

(* C4: a --port/-p value, whatever it is, is the port argument of the       *)
(* constructed command and is the value of ESPPORT in the environment.      *)
C4_CliPortAlwaysWins ==
    (CliPort # <<>> /\ cmd # <<>>) =>
        /\ ArgAfter("--port") = CliPort[1]
        /\ "ESPPORT" \in DOMAIN environ
        /\ environ["ESPPORT"] = CliPort[1]

(* C5: the exit status is 0 if the tool was invoked and exited with status  *)
(* zero, and 1 on a missing port, a missing artifact, a non-zero tool       *)
(* status and a tool that could not be started.                             *)
PortMissing == Parsed /\ (("ESPPORT" \notin DOMAIN environ) \/ environ["ESPPORT"] = "")

ArtifactMissing == Parsed /\ ~PortMissing /\ MissingFiles # {}

ToolFailed ==
    \/ tool.state = "exited" /\ tool.returncode # 0
    \/ tool.state = "not_started"

C5_ExitCode ==
    pc = "exited" =>
        /\ (tool.state = "exited" /\ tool.returncode = 0) => exitCode = <<0>>
        /\ PortMissing => exitCode = <<1>>
        /\ ArtifactMissing => exitCode = <<1>>
        /\ ToolFailed => exitCode = <<1>>
        /\ (Parsed /\ exitCode = <<0>>) => (tool.state = "exited" /\ tool.returncode = 0)

C5_Witness ==
    /\ pc = "exited"
    /\ tool.state = "not_started"
    /\ exitCode = <<1>>

(* C6: when the tool exits with a non-zero status, run_command returns      *)
(* failure, and the printed failure report carries the exit status, the     *)
(* captured stdout and the captured stderr of that invocation; the run      *)
(* ends with the failure message.                                           *)
C6_ToolFailureReport ==
    (tool.state = "exited" /\ tool.returncode # 0 /\ pc \in {"report", "exited"}) =>
        /\ success = <<FALSE>>
        /\ \E i \in Lines("error_during") :
             out[i].returncode = tool.returncode /\ out[i].cmd = invocations[1]
        /\ \E i \in Lines("stdout") : out[i].text = tool.stdout
        /\ \E i \in Lines("stderr") : out[i].text = tool.stderr
        /\ ~SuccessReported
        /\ (pc = "exited" => FailureReported)

C6_Witness ==
    /\ pc = "exited"
    /\ tool.state = "exited"
    /\ tool.returncode # 0
    /\ tool.stdout # tool.stderr
    /\ FailureReported

(* C7: artifacts are checked in the order bootloader, partition table,      *)
(* application, storage, WAD; checking stops at the first missing one: at   *)
(* most one missing-file error is printed, it names the label and path of   *)
(* the earliest missing artifact, and nothing after it is checked.          *)
ValidationOrder ==
    << <<"build/bootloader/bootloader.bin", "Bootloader">>,
       <<"build/partition_table/partition-table.bin", "Partition table">>,
       <<"build/esp32-doom.bin", "Application">>,
       <<"build/storage.bin", "SPIFFS storage">>,
       <<"build/wad_partition.bin", "WAD file">> >>

FirstMissing ==
    CHOOSE k \in DOMAIN ValidationOrder :
        /\ ValidationOrder[k][1] \notin fs
        /\ \A j \in 1..(k - 1) : ValidationOrder[j][1] \in fs

C7_ValidationStopsAtFirstMissing ==
    /\ Len(checked) <= Len(ValidationOrder)
    /\ \A i \in DOMAIN checked : checked[i] = ValidationOrder[i][1]
    /\ \A i \in 1..(Len(checked) - 1) : checked[i] \in fs
    /\ Cardinality(Lines("file_not_found")) <= 1
    /\ \A i \in Lines("file_not_found") :
         /\ out[i].file_path = ValidationOrder[FirstMissing][1]
         /\ out[i].description = ValidationOrder[FirstMissing][2]
         /\ Len(checked) = FirstMissing
    /\ (pc \in {"report", "exited"} /\ ArtifactMissing) =>
         Cardinality(Lines("file_not_found")) = 1

C7_Witness ==
    /\ pc = "exited"
    /\ Cardinality(MissingFiles) >= 2
    /\ Lines("file_not_found") # {}
    /\ Len(checked) < Len(ValidationOrder)

(* C8: the steps of a run occur in the order configuration resolution,      *)
(* artifact validation, external invocation, reporting; the tool is spawned *)
(* at most once; once a step has failed the run only reports and exits:     *)
(* nothing is checked, built, spawned or written to the environment again.  *)
Rank(p) ==
    CASE p \in {"parse_args", "override", "read_config", "check_port"} -> 1
      [] p = "check_files" -> 2
      [] p \in {"build_cmd", "run_command", "waiting", "tool_done", "raised"} -> 3
      [] p = "report" -> 4
      [] p = "exited" -> 5

StepFailed ==
    \/ Lines("espport_not_set") # {}
    \/ Lines("file_not_found") # {}
    \/ Lines("error_during") # {}
    \/ tool.state = "not_started"

C8_SequentialNoRetry ==
    /\ [](Len(invocations) <= 1)
    /\ [](StepFailed => pc \in {"report", "raised", "exited"} /\ success # <<TRUE>>)
    /\ [][ /\ Rank(pc') >= Rank(pc)
           /\ StepFailed => /\ checked' = checked
                            /\ invocations' = invocations
                            /\ cmd' = cmd
                            /\ tool' = tool
                            /\ environ' = environ ]_vars

C8_Witness ==
    /\ pc = "exited"
    /\ Len(invocations) = 1
    /\ tool.state = "exited"
    /\ tool.returncode # 0
    /\ exitCode = <<1>>

(* C9: in the constructed command the baud rate, flash mode, flash          *)
(* frequency and flash size are the value of ESPBAUD, ESPFLASHMODE,         *)
(* ESPFLASHFREQ and ESPFLASHSIZE when the variable is set, and 115200, dio, *)
(* 40m and 4MB when it is not; the port has no default: a command is built  *)
(* only with ESPPORT set to a non-empty value, which is its port argument.  *)
DefaultedSettings ==
    { <<"--baud", "ESPBAUD", "115200">>,
      <<"--flash_mode", "ESPFLASHMODE", "dio">>,
      <<"--flash_freq", "ESPFLASHFREQ", "40m">>,
      <<"--flash_size", "ESPFLASHSIZE", "4MB">> }

C9_DefaultsAndRequiredPort ==
    /\ cmd # <<>> =>
         /\ \A s \in DefaultedSettings :
              ArgAfter(s[1]) = IF s[2] \in DOMAIN environ THEN environ[s[2]] ELSE s[3]
         /\ "ESPPORT" \in DOMAIN environ
         /\ environ["ESPPORT"] # ""
         /\ ArgAfter("--port") = environ["ESPPORT"]
    /\ (pc \in {"report", "exited"} /\ Parsed /\ "ESPPORT" \notin DOMAIN environ) =>
         cmd = <<>> /\ success = <<FALSE>>

C9_Witness ==
    /\ cmd # <<>>
    /\ DOMAIN environ = {"ESPPORT", "ESPFLASHMODE"}
    /\ environ["ESPFLASHMODE"] = "qio"
    /\ ArgAfter("--flash_size") = "4MB"

(* C10: every run that has terminated after its arguments were accepted has *)
(* printed exactly one outcome report: the success confirmation or the      *)
(* failure message, never both and never neither; the confirmation only if  *)
(* the tool was invoked and exited with status zero.                        *)
C10_ExactlyOneReport ==
    /\ (pc = "exited" /\ Parsed) =>
         /\ Cardinality(Lines("all_flashed")) + Cardinality(Lines("flashing_failed")) = 1
    /\ SuccessReported => (tool.state = "exited" /\ tool.returncode = 0)

====
